---------------------------- MODULE Spec2Model ----------------------------
(***************************************************************************)
(* Model of generate_test_files.py: the generator of a corpus of .mini     *)
(* modules connected by a binary import tree, plus the entry module        *)
(* main.mini.                                                              *)
(*                                                                         *)
(* A path "a/b/c" is the sequence <<"a", "b", "c">> of its components.     *)
(* The text of a module is the sequence of its lines; an import line and   *)
(* a function definition are records of the fields their f-strings fill.   *)
(* Names (aliases, function names, file names) are the real strings.       *)
(***************************************************************************)
EXTENDS Integers, Sequences, FiniteSets, TLC

VARIABLES
    NUM_FILES,   \* the node count (module constant NUM_FILES)
    rng_stream,  \* the word stream the seed generates, one period of it
    rng_pos,     \* state of the global random generator: index in the stream
    pc,          \* position of main()
    fs,          \* files on disk: path -> content
    files,       \* main's list of (index, relative path)
    deps,        \* main's dict index -> list of dependency indices
    total_deps,  \* main's edge counter
    i,           \* loop variable of the graph-building loop
    file_idx,    \* loop variable of the emission loop
    num_funcs,   \* node index -> function count passed to gen_file
    writes,      \* the paths given to write_text, in call order
    stdout,      \* the messages printed
    run,         \* number of the current run of the script
    prev_tree    \* the output tree the previous run left

vars == <<NUM_FILES, rng_stream, rng_pos, pc, fs, files, deps, total_deps, i,
          file_idx, num_funcs, writes, stdout, run, prev_tree>>

---------------------------------------------------------------------------
\* Bounds of the model.

\* Largest node count explored.
MaxN == 6

\* Period of the modelled pseudorandom word stream.
Period == 3

\* Number of runs of the script in the rerun specification.
MaxRuns == 2

---------------------------------------------------------------------------
\* Program constants.

OUTPUT_DIR == <<"tests", "benchmark">>

\* The emission loop prints progress every 2000 files.
PROGRESS_EVERY == 2000

\* Width of the zero-padded index in a file name ({i:05d}).
PAD_WIDTH == 5

\* The menu gen_function chooses an arithmetic body from.
ops == <<"x + y", "x * y", "x - y", "x + y + 1", "x * 2 + y">>

---------------------------------------------------------------------------
\* The pseudorandom generator (module random, seeded at import time).
\* A generator is a deterministic periodic stream of words fixed by its
\* seed; every call draws the next word and maps it to its result.

Words == 0..5

Word(pos) == rng_stream[pos % Period]

Advance(pos) == (pos + 1) % Period

\* random.seed(42): the generator restarts at the head of the stream.
seed_Skipped(pos) == pos

seed(pos) == 0

\* random.randint(a, b): an integer in a..b.
randint(a, b, pos) ==
    [value |-> a + (Word(pos) % (b - a + 1)), pos |-> Advance(pos)]

\* random.random(): a fraction num/den in [0, 1).
random(pos) ==
    [num |-> Word(pos), den |-> Cardinality(Words), pos |-> Advance(pos)]

\* random.choice(seq): one element of seq.
choice(seq, pos) ==
    [value |-> seq[(Word(pos) % Len(seq)) + 1], pos |-> Advance(pos)]

\* r < 0.7 for a fraction r.
LessThanCallProbability(r) == r.num * 10 < 7 * r.den

---------------------------------------------------------------------------
\* Naming.

RECURSIVE ZeroPad(_, _)
ZeroPad(s, width) == IF Len(s) >= width THEN s ELSE ZeroPad("0" \o s, width)

\* f"files/file_{i:05d}.mini"
RelPath(idx) ==
    <<"files", "file_" \o ZeroPad(ToString(idx), PAD_WIDTH) \o ".mini">>

\* os.path.basename
basename_Skipped(path) == path

basename(path) == IF path = <<>> THEN <<>> ELSE <<path[Len(path)]>>

\* f"m{dep_idx}"
Alias_Fixed(dep_idx) == "m0"

Alias(dep_idx) == "m" \o ToString(dep_idx)

\* f"func_{file_idx}_{func_idx}"
func_name_NoNode(f_idx, func_idx) == "func_" \o ToString(func_idx)

func_name(f_idx, func_idx) ==
    "func_" \o ToString(f_idx) \o "_" \o ToString(func_idx)

MainPath_Clash == OUTPUT_DIR \o <<"files", "file_00000.mini">>

\* OUTPUT_DIR / "main.mini"
MainPath == OUTPUT_DIR \o <<"main.mini">>

NodePath(idx) == OUTPUT_DIR \o RelPath(idx)

Nodes == 0..(NUM_FILES - 1)

---------------------------------------------------------------------------
\* Module text.

ImportLine(path, alias) == [kind |-> "import", path |-> path, alias |-> alias]

BlankLine == [kind |-> "blank"]

CallTerm(alias, func, args) == [alias |-> alias, func |-> func, args |-> args]

\* gen_function(name, calls): the text of one function and the generator
\* state after it.  calls is a sequence of <<alias, function name>>; the
\* empty sequence stands for None.
gen_function(name, calls, pos) ==
    IF calls # <<>>
    THEN [text |-> [kind |-> "fn", name |-> name, params |-> <<"x", "y">>,
                    expr |-> [kind |-> "calls",
                              terms |-> [c \in 1..Len(calls) |->
                                  CallTerm(calls[c][1], calls[c][2],
                                           <<"x", "y">>)]]],
          pos |-> pos]
    ELSE LET ch == choice(ops, pos)
         IN [text |-> [kind |-> "fn", name |-> name, params |-> <<"x", "y">>,
                       expr |-> [kind |-> "arith", text |-> ch.value]],
             pos |-> ch.pos]

\* Line 45: whether function k calls the imports; r is the result of
\* random.random(), read only when the node has imports and k is not 0.
CallsImports_Random(imports, k, r) ==
    imports # <<>> /\ LessThanCallProbability(r)

CallsImports(imports, k, r) ==
    imports # <<>> /\ (k = 0 \/ LessThanCallProbability(r))

\* The loop of gen_file over the function indices k .. nf-1.
RECURSIVE GenFuncs(_, _, _, _, _)
GenFuncs(f_idx, imports, nf, k, pos) ==
    IF k >= nf
    THEN [lines |-> <<>>, pos |-> pos]
    ELSE LET drawn == imports # <<>> /\ k # 0
             r == random(pos)
             pos1 == IF drawn THEN r.pos ELSE pos
             call == CallsImports(imports, k, r)
             calls == IF call
                      THEN [c \in 1..Len(imports) |->
                               <<imports[c][2], func_name(imports[c][3], 0)>>]
                      ELSE <<>>
             g == gen_function(func_name(f_idx, k), calls, pos1)
             rest == GenFuncs(f_idx, imports, nf, k + 1, g.pos)
         IN [lines |-> <<g.text>> \o rest.lines, pos |-> rest.pos]

\* gen_file(file_idx, imports, num_funcs): the module text and the generator
\* state after it.  imports is a sequence of <<path, alias, dep_idx>>.
gen_file(f_idx, imports, nf, pos) ==
    LET head == [c \in 1..Len(imports) |->
                    ImportLine(imports[c][1], imports[c][2])]
        sep == IF imports # <<>> THEN <<BlankLine>> ELSE <<>>
        body == GenFuncs(f_idx, imports, nf, 0, pos)
    IN [content |-> head \o sep \o body.lines, pos |-> body.pos]

\* The text of main.mini.
main_content ==
    << ImportLine(<<"files", "file_00000.mini">>, "m0"),
       BlankLine,
       [kind |-> "fn", name |-> "main", params |-> <<>>,
        expr |-> [kind |-> "calls",
                  terms |-> <<CallTerm("m0", func_name(0, 0), <<"1", "2">>)>>]] >>

---------------------------------------------------------------------------
\* The file system.

\* Path.write_text: create or overwrite.
write_text(disk, path, content) ==
    [p \in (DOMAIN disk) \cup {path} |-> IF p = path THEN content ELSE disk[p]]

\* shutil.rmtree(OUTPUT_DIR) followed by mkdir: nothing is left below it.
rmtree(disk) == << >>

\* What a previous, unrelated generation may have left on disk.
StaleTree ==
    [p \in {OUTPUT_DIR \o <<"files", "file_00009.mini">>} |->
        <<[kind |-> "fn", name |-> "old", params |-> <<>>,
           expr |-> [kind |-> "arith", text |-> "0"]]>>]

---------------------------------------------------------------------------
\* The graph.

Children_Shifted(n, count) ==
    LET child1 == n * 2 + 2
        child2 == n * 2 + 3
    IN (IF child1 < count THEN <<child1>> ELSE <<>>)
       \o (IF child2 < count THEN <<child2>> ELSE <<>>)

Children_SelfLoop(n, count) ==
    LET child1 == n * 2
        child2 == n * 2 + 1
    IN (IF child1 < count THEN <<child1>> ELSE <<>>)
       \o (IF child2 < count THEN <<child2>> ELSE <<>>)

Children_Twice(n, count) ==
    LET child1 == n * 2 + 1
        child2 == n * 2 + 1
    IN (IF child1 < count THEN <<child1>> ELSE <<>>)
       \o (IF child2 < count THEN <<child2>> ELSE <<>>)

\* The children of node n in the tree (lines 84-92).
Children(n, count) ==
    LET child1 == n * 2 + 1
        child2 == n * 2 + 2
    IN (IF child1 < count THEN <<child1>> ELSE <<>>)
       \o (IF child2 < count THEN <<child2>> ELSE <<>>)

\* The imports main builds for one node (lines 98-103).
ImportsOf(idx) ==
    [c \in 1..Len(deps[idx]) |->
        LET dep_idx == deps[idx][c]
            dep_path == files[dep_idx + 1][2]
        IN <<basename(dep_path), Alias(dep_idx), dep_idx>>]

---------------------------------------------------------------------------
\* The run of the script.

Init ==
    /\ NUM_FILES \in 0..MaxN
    /\ rng_stream \in [0..(Period - 1) -> Words]
    /\ rng_pos = seed(0)
    /\ pc = "clean"
    /\ fs \in {<< >>, StaleTree}
    /\ files = << >>
    /\ deps = << >>
    /\ total_deps = 0
    /\ i = 0
    /\ file_idx = 0
    /\ num_funcs = << >>
    /\ writes = << >>
    /\ stdout = << >>
    /\ run = 1
    /\ prev_tree = << >>

\* Lines 54-64: announce, remove the old output tree, create the directories.
Clean ==
    /\ pc = "clean"
    /\ stdout' = Append(stdout, [msg |-> "Generating", n |-> NUM_FILES])
    /\ fs' = rmtree(fs)
    /\ pc' = "list"
    /\ UNCHANGED <<NUM_FILES, rng_stream, rng_pos, files, deps, total_deps, i,
                   file_idx, num_funcs, writes, run, prev_tree>>

\* Lines 66-81: the list of files, the empty dependency lists.
ListFiles ==
    /\ pc = "list"
    /\ files' = [c \in 1..NUM_FILES |-> <<c - 1, RelPath(c - 1)>>]
    /\ deps' = [n \in Nodes |-> << >>]
    /\ total_deps' = 0
    /\ i' = 0
    /\ pc' = "build"
    /\ UNCHANGED <<NUM_FILES, rng_stream, rng_pos, fs, file_idx, num_funcs,
                   writes, stdout, run, prev_tree>>

\* Lines 82-92: one iteration of the graph-building loop.
BuildStep ==
    /\ pc = "build"
    /\ i < NUM_FILES
    /\ deps' = [deps EXCEPT ![i] = @ \o Children(i, NUM_FILES)]
    /\ total_deps' = total_deps + Len(Children(i, NUM_FILES))
    /\ i' = i + 1
    /\ UNCHANGED <<NUM_FILES, rng_stream, rng_pos, pc, fs, files, file_idx,
                   num_funcs, writes, stdout, run, prev_tree>>

\* Line 94: the loop is over.
BuildDone ==
    /\ pc = "build"
    /\ i >= NUM_FILES
    /\ stdout' = Append(stdout, [msg |-> "Created", n |-> total_deps])
    /\ file_idx' = 0
    /\ pc' = "emit"
    /\ UNCHANGED <<NUM_FILES, rng_stream, rng_pos, fs, files, deps, total_deps,
                   i, num_funcs, writes, run, prev_tree>>

\* Lines 97-109: one iteration of the emission loop.
EmitStep ==
    /\ pc = "emit"
    /\ file_idx < Len(files)
    /\ LET idx == files[file_idx + 1][1]
           rel_path == files[file_idx + 1][2]
           k == randint(2, 4, rng_pos)
           g == gen_file(idx, ImportsOf(idx), k.value, k.pos)
       IN /\ fs' = write_text(fs, OUTPUT_DIR \o rel_path, g.content)
          /\ writes' = Append(writes, OUTPUT_DIR \o rel_path)
          /\ num_funcs' = [n \in (DOMAIN num_funcs) \cup {idx} |->
                              IF n = idx THEN k.value ELSE num_funcs[n]]
          /\ rng_pos' = g.pos
          /\ stdout' = IF (idx + 1) % PROGRESS_EVERY = 0
                       THEN Append(stdout, [msg |-> "Progress", n |-> idx + 1])
                       ELSE stdout
    /\ file_idx' = file_idx + 1
    /\ UNCHANGED <<NUM_FILES, rng_stream, pc, files, deps, total_deps, i, run,
                   prev_tree>>

\* Lines 111-126: the entry module, the closing messages.
EmitMain ==
    /\ pc = "emit"
    /\ file_idx >= Len(files)
    /\ fs' = write_text(fs, MainPath, main_content)
    /\ writes' = Append(writes, MainPath)
    /\ stdout' = Append(stdout, [msg |-> "Done", n |-> NUM_FILES + 1])
    /\ pc' = "done"
    /\ UNCHANGED <<NUM_FILES, rng_stream, rng_pos, files, deps, total_deps, i,
                   file_idx, num_funcs, run, prev_tree>>

\* The script is started again with the same constants: the module is
\* loaded (line 17 seeds the generator) and main() starts over.
Rerun ==
    /\ pc = "done"
    /\ run < MaxRuns
    /\ run' = run + 1
    /\ prev_tree' = fs
    /\ rng_pos' = seed(rng_pos)
    /\ pc' = "clean"
    /\ files' = << >>
    /\ deps' = << >>
    /\ total_deps' = 0
    /\ i' = 0
    /\ file_idx' = 0
    /\ num_funcs' = << >>
    /\ writes' = << >>
    /\ stdout' = << >>
    /\ UNCHANGED <<NUM_FILES, rng_stream, fs>>

Next ==
    \/ Clean
    \/ ListFiles
    \/ BuildStep
    \/ BuildDone
    \/ EmitStep
    \/ EmitMain

Spec == Init /\ [][Next]_vars

NextRerun ==
    \/ Clean
    \/ ListFiles
    \/ BuildStep
    \/ BuildDone
    \/ EmitStep
    \/ EmitMain
    \/ Rerun

SpecRerun == Init /\ [][NextRerun]_vars

---------------------------------------------------------------------------
\* Reading the state back: what was emitted, what the graph says.

Range(f) == {f[x] : x \in DOMAIN f}

ImportLines(content) == SelectSeq(content, LAMBDA l : l.kind = "import")

FnLines(content) == SelectSeq(content, LAMBDA l : l.kind = "fn")

\* The file an import of path rel, written in the module at path from, names.
Resolve(from, rel) == SubSeq(from, 1, Len(from) - 1) \o rel

\* The name of the file of node n, spelled out for the indices of the model.
ExpectedNodePath(n) ==
    <<"tests", "benchmark", "files",
      IF n < 10 THEN "file_0000" \o ToString(n) \o ".mini"
                ELSE "file_000" \o ToString(n) \o ".mini">>

ExpectedMainPath == <<"tests", "benchmark", "main.mini">>

\* The graph-building loop is over.
GraphBuilt == pc \in {"emit", "done"} \/ (pc = "build" /\ i >= NUM_FILES)

\* The nodes whose module has been written in this run.
Emitted == {n \in Nodes : ExpectedNodePath(n) \in Range(writes)}

\* The nodes a walk over deps reaches from the set S of nodes.
RECURSIVE ReachFrom(_)
ReachFrom(S) ==
    LET T == S \cup {d \in DOMAIN deps : \E n \in S \cap DOMAIN deps :
                                           d \in Range(deps[n])}
    IN IF T = S THEN S ELSE ReachFrom(T)

\* The nodes the entry module on disk imports.
EntryRoots ==
    IF ExpectedMainPath \in DOMAIN fs
    THEN {n \in Nodes : \E l \in Range(ImportLines(fs[ExpectedMainPath])) :
             Resolve(ExpectedMainPath, l.path) = ExpectedNodePath(n)}
    ELSE {}

---------------------------------------------------------------------------
\* C1: for every node count N > 0, once main() is done, the walk that
\* starts at the entry module and follows the edges of deps visits every
\* node index in [0, N).
C1_Connectivity ==
    (pc = "done" /\ NUM_FILES > 0) => ReachFrom(EntryRoots) = Nodes

\* A finished run over a tree of depth two, all of it reached.
C1_Witness ==
    /\ pc = "done"
    /\ NUM_FILES >= 4
    /\ EntryRoots = {0}
    /\ 3 \in ReachFrom(EntryRoots)

\* C2: in every state of the graph-building loop and in the final graph,
\* every edge (n, d) of deps has d > n; so no node is its own dependency and
\* no node reaches itself along the edges.
C2_EdgesForward ==
    \A n \in DOMAIN deps :
        /\ \A c \in 1..Len(deps[n]) : deps[n][c] > n
        /\ n \notin Range(deps[n])
        /\ n \notin ReachFrom(Range(deps[n]))

\* The loop is under way: node 0 has its two edges, later nodes are pending.
C2_Witness ==
    /\ pc = "build"
    /\ 0 < i
    /\ i < NUM_FILES
    /\ Len(deps[0]) = 2

ExpectedCall(d) ==
    [alias |-> "m" \o ToString(d),
     func |-> "func_" \o ToString(d) \o "_0",
     args |-> <<"x", "y">>]

\* The functions defined in the module written for node n.
FnsOf(n) == FnLines(fs[ExpectedNodePath(n)])

\* C3: for every emitted node and every outcome of the draws, the body of
\* its function 0 is, when the node has dependencies, the sum of exactly one
\* call term per dependency, in dependency order, each of the form
\* m<d>.func_<d>_0(x, y); when it has none, an arithmetic expression of the
\* menu.
C3_Function0Coverage ==
    \A n \in Emitted :
        /\ Len(FnsOf(n)) >= 1
        /\ LET f0 == FnsOf(n)[1]
           IN /\ f0.name = "func_" \o ToString(n) \o "_0"
              /\ IF deps[n] # << >>
                 THEN /\ f0.expr.kind = "calls"
                      /\ f0.expr.terms =
                            [c \in 1..Len(deps[n]) |-> ExpectedCall(deps[n][c])]
                 ELSE /\ f0.expr.kind = "arith"
                      /\ f0.expr.text \in Range(ops)

\* Node 0 with two dependencies and a leaf are written, and in node 0 a
\* later function drew an arithmetic body while function 0 calls.
C3_Witness ==
    /\ {0, 2} \subseteq Emitted
    /\ Len(deps[0]) = 2
    /\ FnsOf(0)[1].expr.kind = "calls"
    /\ \E c \in 2..Len(FnsOf(0)) : FnsOf(0)[c].expr.kind = "arith"
    /\ FnsOf(2)[1].expr.kind = "arith"

\* C6: within one emitted module the import aliases are pairwise distinct:
\* the module of node n has one import declaration per entry of deps[n], in
\* that order, the c-th with alias m<deps[n][c]>, and no two aliases agree.
C6_AliasesDistinct ==
    \A n \in Emitted :
        LET imps == ImportLines(fs[ExpectedNodePath(n)])
        IN /\ Len(imps) = Len(deps[n])
           /\ \A c \in 1..Len(imps) :
                 /\ imps[c].alias = "m" \o ToString(deps[n][c])
                 /\ Resolve(ExpectedNodePath(n), imps[c].path)
                        = ExpectedNodePath(deps[n][c])
           /\ \A c1, c2 \in 1..Len(imps) :
                 imps[c1].alias = imps[c2].alias => c1 = c2

\* A module with two imports is on disk.
C6_Witness ==
    \E n \in Emitted :
        /\ Len(ImportLines(fs[ExpectedNodePath(n)])) = 2
        /\ n > 0

\* C8: the module of node n defines exactly k functions, k the count chosen
\* for the node, 2 <= k <= 4, named func_<n>_<s> for s = 0..k-1 in order;
\* no two functions of the corpus share a name.
C8_FunctionNames ==
    /\ DOMAIN num_funcs = Emitted
    /\ \A n \in Emitted :
          /\ num_funcs[n] \in 2..4
          /\ Len(FnsOf(n)) = num_funcs[n]
          /\ \A c \in 1..Len(FnsOf(n)) :
                FnsOf(n)[c].name
                    = "func_" \o ToString(n) \o "_" \o ToString(c - 1)
    /\ \A n1, n2 \in Emitted :
          \A c1 \in 1..Len(FnsOf(n1)), c2 \in 1..Len(FnsOf(n2)) :
              FnsOf(n1)[c1].name = FnsOf(n2)[c2].name => (n1 = n2 /\ c1 = c2)

\* Modules with two, three and four functions are on disk.
C8_Witness ==
    /\ pc = "done"
    /\ \A k \in 2..4 : \E n \in Emitted : Len(FnsOf(n)) = k

\* C10: for N >= 1, once the run is done, every import declaration of every
\* module on disk (main.mini included) names the file of a node in [0, N)
\* written by the run, and every call term alias.func_<j>_0(...) uses an
\* alias the same module imports and names a function the module of node j
\* defines.
C10_NoDanglingReference ==
    (pc = "done" /\ NUM_FILES >= 1) =>
        \A p \in DOMAIN fs :
            /\ \A l \in Range(ImportLines(fs[p])) :
                  \E n \in Emitted : Resolve(p, l.path) = ExpectedNodePath(n)
            /\ \A f \in Range(FnLines(fs[p])) :
                  f.expr.kind = "calls" =>
                      \A t \in Range(f.expr.terms) :
                          \E l \in Range(ImportLines(fs[p])) :
                              /\ l.alias = t.alias
                              /\ \E j \in Emitted :
                                    /\ Resolve(p, l.path) = ExpectedNodePath(j)
                                    /\ t.func = "func_" \o ToString(j) \o "_0"
                                    /\ \E g \in Range(FnsOf(j)) :
                                          g.name = t.func

\* A finished corpus in which a module below the root imports and calls.
C10_Witness ==
    /\ pc = "done"
    /\ NUM_FILES >= 4
    /\ ExpectedMainPath \in DOMAIN fs
    /\ \E f \in Range(FnsOf(1)) : f.expr.kind = "calls"

\* C4: two runs of the script with the same node count and the same seed
\* leave the same output tree: the same set of paths and, for each path, the
\* same content.
C4_Deterministic ==
    (pc = "done" /\ run > 1) => fs = prev_tree

\* A second run is done; its corpus holds bodies that came from the draws,
\* both a drawn arithmetic body and a drawn call body.
C4_Witness ==
    /\ pc = "done"
    /\ run = 2
    /\ NUM_FILES >= 3
    /\ fs = prev_tree
    /\ \E c \in 2..Len(FnsOf(0)) : FnsOf(0)[c].expr.kind = "arith"
    /\ \E c \in 2..Len(FnsOf(0)) : FnsOf(0)[c].expr.kind = "calls"

\* A message that is not one of the progress messages of a normal run.
Diagnostics ==
    {m \in Range(stdout) : m.msg \notin {"Generating", "Created", "Progress", "Done"}}

\* C5: with N = 0 the generator never writes an entry module that imports
\* files/file_00000.mini unless it also reports the missing root: either it
\* does not write main.mini at all, or a diagnostic is printed.
C5_ZeroNodesFlagged ==
    (NUM_FILES = 0 /\ ExpectedMainPath \in Range(writes)) =>
        \/ Diagnostics # {}
        \/ \A l \in Range(ImportLines(fs[ExpectedMainPath])) :
              Resolve(ExpectedMainPath, l.path) \in DOMAIN fs

\* The nodes emitted so far are an initial segment of the indices.
WritesInOrder ==
    /\ Len(writes) <= NUM_FILES + 1
    /\ \A c \in 1..Len(writes) :
          writes[c] = (IF c <= NUM_FILES THEN ExpectedNodePath(c - 1)
                                         ELSE ExpectedMainPath)
    /\ \A c1, c2 \in 1..Len(writes) : writes[c1] = writes[c2] => c1 = c2
    /\ DOMAIN num_funcs = 0..(Len(writes) - 1) \cap Nodes
    /\ pc = "done" <=> Len(writes) = NUM_FILES + 1

\* C9: the complete edge set is built before the first module is written
\* and is never modified afterwards; the nodes are emitted once each, in
\* increasing index order, each to a path of its own, different from the
\* entry module's; the entry module is written once, after all the nodes.
C9_BuildThenEmitInOrder ==
    /\ [](writes # << >> => GraphBuilt)
    /\ [](GraphBuilt =>
             \A n \in Nodes : deps[n] = SelectSeq(<<2 * n + 1, 2 * n + 2>>,
                                                  LAMBDA t : t < NUM_FILES))
    /\ [][GraphBuilt => deps' = deps]_vars
    /\ []WritesInOrder

\* All the nodes of a tree of depth two and the entry module are written.
C9_Witness ==
    /\ pc = "done"
    /\ NUM_FILES >= 4
    /\ Len(writes) = NUM_FILES + 1
    /\ writes[NUM_FILES + 1] = ExpectedMainPath

=============================================================================
